---- MODULE Spec2Model ----
(***************************************************************************)
(* scripts/ascii_to_png.py: render the jellywatch ASCII art to a PNG with  *)
(* a transparent background.                                               *)
(*                                                                         *)
(* Strings whose characters matter (the text block, the colour) are        *)
(* sequences of Unicode code points, so that split, len and int(.., 16)    *)
(* are computed as Python computes them.  A pixel is <<x, y>>, a colour is *)
(* <<r, g, b, a>>.  The canvas is kept sparse: the colour Image.new filled *)
(* it with plus the pixels painted since.                                  *)
(***************************************************************************)
EXTENDS Integers, Sequences, FiniteSets, TLC

\* Longest text block explored besides the embedded one.
MaxLen == 2

\* "\n", the separator of ASCII_ART.split("\n")
NL == 10

\* Characters of the explored text blocks: newline, space, a printing one.
Alphabet == {NL, 32, 35}

\* ASCII_ART as the source file holds it, one code point per character.
ASCII_ART ==
  <<
    32, 32, 8218, 278, 196, 8218, 278, 196, 32, 32, 32, 32, 32, 32, 32, 32,
    8218, 278, 196, 8218, 278, 261, 8218, 278, 261, 32, 32, 32, 8218, 278, 196, 8218,
    278, 261, 8218, 278, 261, 32, 32, 32, 32, 32, 32, 32, 32, 32, 32, 32,
    32, 32, 32, 32, 32, 32, 32, 32, 32, 32, 32, 32, 32, 8218, 278, 260,
    8218, 278, 260, 32, 32, 32, 32, 32, 32, 32, 32, 32, 32, 8218, 278, 261,
    8218, 278, 261, 32, 32, 32, 32, 10, 32, 8218, 278, 196, 8218, 278, 261, 8218,
    278, 261, 32, 8218, 278, 261, 8218, 278, 261, 8218, 278, 196, 8218, 278, 196, 8218,
    278, 261, 8218, 278, 261, 32, 32, 8218, 278, 261, 8218, 278, 261, 32, 32, 32,
    32, 8218, 278, 261, 8218, 278, 261, 32, 32, 8218, 278, 261, 8218, 278, 261, 32,
    32, 8218, 278, 261, 8218, 278, 261, 32, 8218, 278, 261, 8218, 278, 261, 32, 8218,
    278, 260, 32, 8218, 278, 261, 32, 8218, 278, 196, 8218, 278, 196, 8218, 278, 196,
    8218, 278, 196, 8218, 278, 261, 8218, 278, 261, 32, 8218, 278, 196, 8218, 278, 261,
    8218, 278, 261, 8218, 278, 196, 8218, 278, 196, 32, 8218, 278, 261, 8218, 278, 261,
    8218, 278, 196, 8218, 278, 196, 8218, 278, 261, 8218, 278, 261, 32, 8218, 278, 261,
    8218, 278, 261, 8218, 278, 196, 8218, 278, 196, 8218, 278, 261, 8218, 278, 261, 10,
    32, 32, 8218, 278, 261, 8218, 278, 261, 32, 8218, 278, 261, 8218, 278, 261, 8218,
    278, 196, 8218, 278, 196, 8218, 278, 196, 8218, 278, 196, 32, 32, 8218, 278, 261,
    8218, 278, 261, 32, 32, 32, 32, 8218, 278, 261, 8218, 278, 261, 32, 32, 8218,
    278, 261, 8218, 278, 261, 32, 32, 8218, 278, 261, 8218, 278, 261, 32, 8218, 278,
    261, 8218, 278, 261, 8218, 278, 260, 8218, 278, 261, 8218, 278, 260, 8218, 278, 261,
    32, 8218, 278, 261, 8218, 278, 261, 8218, 278, 196, 8218, 278, 196, 8218, 278, 261,
    8218, 278, 261, 32, 32, 8218, 278, 261, 8218, 278, 261, 32, 32, 32, 8218, 278,
    261, 8218, 278, 261, 32, 32, 8218, 278, 260, 8218, 278, 260, 32, 8218, 278, 261,
    8218, 278, 261, 32, 32, 8218, 278, 261, 8218, 278, 261, 10, 32, 32, 8218, 278,
    261, 8218, 278, 261, 32, 8218, 278, 196, 8218, 278, 196, 8218, 278, 196, 8218, 278,
    196, 8218, 278, 196, 8218, 278, 196, 32, 8218, 278, 196, 8218, 278, 196, 8218, 278,
    196, 8218, 278, 196, 32, 32, 8218, 278, 196, 8218, 278, 196, 8218, 278, 196, 8218,
    278, 196, 32, 8218, 278, 196, 8218, 278, 196, 8218, 278, 196, 8218, 278, 196, 8218,
    278, 261, 8218, 278, 261, 32, 8218, 278, 196, 8218, 278, 196, 8218, 278, 196, 8218,
    278, 196, 8218, 278, 196, 8218, 278, 196, 32, 8218, 278, 196, 8218, 278, 196, 8218,
    278, 196, 8218, 278, 196, 8218, 278, 196, 8218, 278, 196, 32, 32, 8218, 278, 196,
    8218, 278, 196, 8218, 278, 196, 8218, 278, 196, 32, 8218, 278, 196, 8218, 278, 196,
    8218, 278, 196, 8218, 278, 196, 8218, 278, 196, 8218, 278, 196, 32, 8218, 278, 196,
    8218, 278, 196, 32, 32, 8218, 278, 196, 8218, 278, 196, 10, 8218, 278, 196, 8218,
    278, 196, 8218, 278, 196, 8218, 278, 196, 32, 32, 32, 32, 32, 32, 32, 32,
    32, 32, 32, 32, 32, 32, 32, 32, 32, 32, 32, 8218, 278, 196, 8218, 278,
    196, 8218, 278, 196, 8218, 278, 196, 8218, 278, 196, 8218, 278, 196, 32, 32, 32,
    32, 32, 32, 32, 32, 32, 32, 32, 32, 32, 32, 32, 32, 32, 32, 32,
    32, 32, 32, 32, 32, 32, 32, 32, 32, 32, 32, 32, 32, 32, 32 >>

JELLYFIN_PURPLE == <<35, 65, 65, 53, 67, 67, 51>>    \* "#AA5CC3"

DefaultOutputPath == "assets/jellywatch-header.png"

ScriptName == "scripts/ascii_to_png.py"

\* Command lines: no argument, or one destination path.
ArgvChoices == { <<ScriptName>>, <<ScriptName, "out.png">> }

Paths == {DefaultOutputPath, "out.png"}

FontCandidates ==
  << "/usr/share/fonts/truetype/dejavu/DejaVuSansMono.ttf",
     "/System/Library/Fonts/Monaco.dfont",
     "/usr/share/fonts/truetype/liberation/LiberationMono-Regular.ttf" >>

font_size == 14
char_width == 8
char_height == 16
\* y = 20, the top padding
TopPadding == 20

\* x = 20, the left padding
LeftPadding == 20

NoFont == [kind |-> "none", path |-> "", size |-> 0]
DefaultFont == [kind |-> "default", path |-> "", size |-> 0]
TrueType(path, size) == [kind |-> "truetype", path |-> path, size |-> size]

TransparentBlack == <<0, 0, 0, 0>>

NoPixels == [p \in {} |-> TransparentBlack]

NoImage == [exists |-> FALSE, size |-> <<0, 0>>, background |-> TransparentBlack,
            painted |-> NoPixels]

NoFile == [exists |-> FALSE, format |-> "", size |-> <<0, 0>>,
           background |-> TransparentBlack, painted |-> NoPixels]

NoRun == [valid |-> FALSE, sys_argv |-> <<>>, loadable |-> {}, dims |-> <<0, 0>>,
          font |-> NoFont, draws |-> <<>>, img |-> NoImage]

(***************************************************************************)
(* Pure functions                                                          *)
(***************************************************************************)

\* splitlines() in place of split("\n"): no line for an empty text, none after
\* a final newline
RECURSIVE SplitLines(_)
SplitLines(s) ==
  IF s = <<>> THEN <<>>
  ELSE IF \A k \in 1..Len(s) : s[k] # NL
  THEN <<s>>
  ELSE LET k == CHOOSE i \in 1..Len(s) : s[i] = NL /\ \A j \in 1..(i-1) : s[j] # NL
       IN  <<SubSeq(s, 1, k-1)>> \o SplitLines(SubSeq(s, k+1, Len(s)))

\* str.split("\n"): the pieces between separators; never an empty list.
RECURSIVE Split(_)
Split(s) ==
  IF \A k \in 1..Len(s) : s[k] # NL
  THEN <<s>>
  ELSE LET k == CHOOSE i \in 1..Len(s) : s[i] = NL /\ \A j \in 1..(i-1) : s[j] # NL
       IN  <<SubSeq(s, 1, k-1)>> \o Split(SubSeq(s, k+1, Len(s)))

\* the first line measured in place of the longest
FirstLineLen(ls) == Len(ls[1])

\* max(len(line) for line in lines), for a non-empty list
MaxLineLen(ls) ==
  LET lens == {Len(ls[i]) : i \in 1..Len(ls)}
  IN  CHOOSE m \in lens : \A n \in lens : n <= m

\* the row height used as the cell width
ImgWidthByRowHeight(mw) == mw * char_height + 40

\* img_width = max_width * char_width + 40
ImgWidth(mw) == mw * char_width + 40

\* the padding counted once
ImgHeightOnePadding(h) == h * char_height + 20

\* img_height = height * char_height + 40
ImgHeight(h) == h * char_height + 40

\* the rows advanced by the cell width
NextYByCellWidth(y0) == y0 + char_width

\* y += char_height
NextY(y0) == y0 + char_height

\* s.lstrip("#")
RECURSIVE LStripHash(_)
LStripHash(s) == IF s # <<>> /\ Head(s) = 35 THEN LStripHash(Tail(s)) ELSE s

HexDigit(c) == IF c \in 48..57 THEN c - 48
               ELSE IF c \in 65..70 THEN c - 55
               ELSE c - 87

\* int(s[i : i + 2], 16) for a 0-based i
HexByte(s, i) == HexDigit(s[i+1]) * 16 + HexDigit(s[i+2])

\* tuple(int(JELLYFIN_PURPLE.lstrip("#")[i : i + 2], 16) for i in (0, 2, 4))
HexToRGB(hex) == LET h == LStripHash(hex)
                 IN  <<HexByte(h, 0), HexByte(h, 2), HexByte(h, 4)>>

\* color + (255,)
Fill(rgb) == rgb \o <<255>>

\* an opaque black canvas
NewImageOpaque(w, h) == [exists |-> TRUE, size |-> <<w, h>>,
                         background |-> <<0, 0, 0, 255>>, painted |-> NoPixels]

\* Image.new("RGBA", (w, h), (0, 0, 0, 0))
NewImage(w, h) == [exists |-> TRUE, size |-> <<w, h>>,
                   background |-> TransparentBlack, painted |-> NoPixels]

InCanvas(im, p) == p[1] \in 0..(im.size[1]-1) /\ p[2] \in 0..(im.size[2]-1)

PixelAt(im, p) == IF p \in DOMAIN im.painted THEN im.painted[p] ELSE im.background

(***************************************************************************)
(* Pillow's rasteriser, as far as the script depends on it: the coverage   *)
(* mask of a line is a function of the font, the line and the origin only. *)
(* A truetype face is anti-aliased (a full pixel and a half-covered one    *)
(* per printing character), the built-in face is a 1-bit bitmap with a     *)
(* narrower advance.  A space leaves no ink.                               *)
(***************************************************************************)
FontIndex(f) == IF f.kind = "truetype"
                THEN CHOOSE i \in 1..Len(FontCandidates) : FontCandidates[i] = f.path
                ELSE 0

Advance(f) == IF f.kind = "truetype" THEN 8 ELSE 6

GlyphMask(f, line, x, y) ==
  LET ks   == {k \in 1..Len(line) : line[k] # 32}
      core == {<<x + (k-1) * Advance(f), y + FontIndex(f)>> : k \in ks}
      edge == IF f.kind = "truetype"
              THEN {<<x + (k-1) * Advance(f) + 1, y + FontIndex(f)>> : k \in ks}
              ELSE {}
  IN  [p \in core \cup edge |-> IF p \in core THEN 255 ELSE 128]

\* paste of the ink through the mask: each channel moves towards the ink
Blend(dst, ink, m) == [c \in 1..4 |-> (m * ink[c] + (255 - m) * dst[c]) \div 255]

\* draw.text((x, y), line, fill=fill, font=f): drawing is clipped to the canvas
DrawText(im, x, y, line, fill, f) ==
  LET mask == GlyphMask(f, line, x, y)
      hit  == {p \in DOMAIN mask : InCanvas(im, p)}
  IN  [im EXCEPT !.painted =
         [p \in (DOMAIN im.painted) \cup hit |->
            IF p \in hit THEN Blend(PixelAt(im, p), fill, mask[p])
            ELSE im.painted[p]]]

\* img.save(path, "PNG"): the file holds the canvas
EncodePNG(im) == [exists |-> TRUE, format |-> "PNG", size |-> im.size,
                  background |-> im.background, painted |-> im.painted]

(***************************************************************************)
(* State                                                                   *)
(***************************************************************************)
VARIABLES
  ascii_art,    \* the text block the script holds (module constant ASCII_ART)
  sys_argv,     \* command line of the running process
  loadable,     \* font files ImageFont.truetype can load in this run
  fs,           \* the files at the destination paths
  pc,           \* position of the process
  output_path, lines, max_width, height, img_width, img_height,
  img, font_idx, font, tried, color, y, row,
  draws,        \* the draw.text calls made so far, in order
  saves,        \* calls of img.save in this run
  stdout,       \* lines printed in this run
  exc,          \* exception that ended the run, "none" otherwise
  status,       \* exit status of the process
  prev          \* the run before this one

vars == <<ascii_art, sys_argv, loadable, fs, pc, output_path, lines, max_width,
          height, img_width, img_height, img, font_idx, font, tried, color, y,
          row, draws, saves, stdout, exc, status, prev>>

locals == <<lines, max_width, height, img_width, img_height, img, font_idx,
            font, tried, color, y, row, draws>>

Texts == UNION {[1..n -> Alphabet] : n \in 0..MaxLen}

CandidateSet == {FontCandidates[i] : i \in 1..Len(FontCandidates)}

FreshLocals ==
  /\ lines = <<>> /\ max_width = 0 /\ height = 0
  /\ img_width = 0 /\ img_height = 0 /\ img = NoImage
  /\ font_idx = 0 /\ font = NoFont /\ tried = <<>>
  /\ color = <<>> /\ y = 0 /\ row = 0 /\ draws = <<>>

InitCommon ==
  /\ sys_argv = <<>> /\ loadable = {}
  /\ fs = [p \in Paths |-> NoFile]
  /\ pc = "idle" /\ output_path = ""
  /\ FreshLocals
  /\ saves = 0 /\ stdout = <<>> /\ exc = "none" /\ status = 0
  /\ prev = NoRun

Init == ascii_art \in Texts /\ InitCommon

\* The script as it is shipped: the embedded text block.
InitHeader == ascii_art = ASCII_ART /\ InitCommon

ThisRun == [valid |-> TRUE, sys_argv |-> sys_argv, loadable |-> loadable,
            dims |-> <<img_width, img_height>>, font |-> font, draws |-> draws,
            img |-> img]

(***************************************************************************)
(* Steps of one run                                                        *)
(***************************************************************************)

\* __main__: a new process; output = sys.argv[1] if len(sys.argv) > 1 else default
Main ==
  /\ pc \in {"idle", "exited"}
  /\ \E av \in ArgvChoices, ld \in SUBSET CandidateSet :
       /\ sys_argv' = av
       /\ loadable' = ld
       /\ output_path' = IF Len(av) > 1 THEN av[2] ELSE DefaultOutputPath
  /\ prev' = IF pc = "exited" THEN ThisRun ELSE prev
  /\ lines' = <<>> /\ max_width' = 0 /\ height' = 0
  /\ img_width' = 0 /\ img_height' = 0 /\ img' = NoImage
  /\ font_idx' = 0 /\ font' = NoFont /\ tried' = <<>>
  /\ color' = <<>> /\ y' = 0 /\ row' = 0 /\ draws' = <<>>
  /\ saves' = 0 /\ stdout' = <<>> /\ exc' = "none" /\ status' = 0
  /\ pc' = "dims"
  /\ UNCHANGED <<ascii_art, fs>>

\* lines 36-47: split, max of the lengths (ValueError on no lines), sizes
Dimensions ==
  /\ pc = "dims"
  /\ LET ls == Split(ascii_art) IN
       /\ lines' = ls
       /\ IF ls = <<>>
          THEN /\ exc' = "ValueError" /\ status' = 1 /\ pc' = "exited"
               /\ UNCHANGED <<max_width, height, img_width, img_height>>
          ELSE /\ max_width' = MaxLineLen(ls)
               /\ height' = Len(ls)
               /\ img_width' = ImgWidth(MaxLineLen(ls))
               /\ img_height' = ImgHeight(Len(ls))
               /\ pc' = "canvas"
               /\ UNCHANGED <<exc, status>>
  /\ UNCHANGED <<ascii_art, sys_argv, loadable, fs, output_path, img, font_idx,
                 font, tried, color, y, row, draws, saves, stdout, prev>>

\* the canvas of the run before drawn over again
NewCanvasReused ==
  /\ pc = "canvas"
  /\ img' = IF prev.valid /\ prev.img.exists /\ prev.img.size = <<img_width, img_height>>
            THEN prev.img
            ELSE NewImage(img_width, img_height)
  /\ font_idx' = 1
  /\ pc' = "font"
  /\ UNCHANGED <<ascii_art, sys_argv, loadable, fs, output_path, lines, max_width,
                 height, img_width, img_height, font, tried, color, y, row, draws,
                 saves, stdout, exc, status, prev>>

\* lines 50-51
NewCanvas ==
  /\ pc = "canvas"
  /\ img' = NewImage(img_width, img_height)
  /\ font_idx' = 1
  /\ pc' = "font"
  /\ UNCHANGED <<ascii_art, sys_argv, loadable, fs, output_path, lines, max_width,
                 height, img_width, img_height, font, tried, color, y, row, draws,
                 saves, stdout, exc, status, prev>>

\* the loop without its break: every candidate is tried, the last success wins
TryFontNoBreak ==
  /\ pc = "font"
  /\ font_idx <= Len(FontCandidates)
  /\ LET font_name == FontCandidates[font_idx] IN
       /\ tried' = Append(tried, font_name)
       /\ font' = IF font_name \in loadable THEN TrueType(font_name, font_size) ELSE font
       /\ font_idx' = font_idx + 1
       /\ pc' = IF font_idx = Len(FontCandidates) /\ font' # NoFont THEN "color" ELSE pc
  /\ UNCHANGED <<ascii_art, sys_argv, loadable, fs, output_path, lines, max_width,
                 height, img_width, img_height, img, color, y, row, draws,
                 saves, stdout, exc, status, prev>>

\* lines 56-65: one turn of the candidate loop; break on success, continue on
\* any exception
TryFont ==
  /\ pc = "font"
  /\ font_idx <= Len(FontCandidates)
  /\ LET font_name == FontCandidates[font_idx] IN
       /\ tried' = Append(tried, font_name)
       /\ IF font_name \in loadable
          THEN /\ font' = TrueType(font_name, font_size)
               /\ pc' = "color"
               /\ UNCHANGED font_idx
          ELSE /\ font_idx' = font_idx + 1
               /\ UNCHANGED <<font, pc>>
  /\ UNCHANGED <<ascii_art, sys_argv, loadable, fs, output_path, lines, max_width,
                 height, img_width, img_height, img, color, y, row, draws,
                 saves, stdout, exc, status, prev>>

\* no fallback: the last load error leaves the function
FontFallbackRaises ==
  /\ pc = "font"
  /\ font_idx > Len(FontCandidates)
  /\ exc' = "FontError"
  /\ status' = 1
  /\ pc' = "exited"
  /\ UNCHANGED <<ascii_art, sys_argv, loadable, fs, output_path, locals, saves,
                 stdout, prev>>

\* lines 66-68: the loop ran out of candidates
FontFallback ==
  /\ pc = "font"
  /\ font_idx > Len(FontCandidates)
  /\ font' = DefaultFont
  /\ pc' = "color"
  /\ UNCHANGED <<ascii_art, sys_argv, loadable, fs, output_path, lines, max_width,
                 height, img_width, img_height, img, font_idx, tried, color, y,
                 row, draws, saves, stdout, exc, status, prev>>

\* lines 73-76
BeginPaint ==
  /\ pc = "color"
  /\ color' = HexToRGB(JELLYFIN_PURPLE)
  /\ y' = TopPadding
  /\ row' = 1
  /\ pc' = "paint"
  /\ UNCHANGED <<ascii_art, sys_argv, loadable, fs, output_path, lines, max_width,
                 height, img_width, img_height, img, font_idx, font, tried, draws,
                 saves, stdout, exc, status, prev>>

\* lines 77-80: one turn of the loop over the lines
DrawLine ==
  /\ pc = "paint"
  /\ row <= Len(lines)
  /\ LET x == LeftPadding
         line == lines[row]
     IN  /\ img' = DrawText(img, x, y, line, Fill(color), font)
         /\ draws' = Append(draws, [x |-> x, y |-> y, text |-> line,
                                    fill |-> Fill(color), font |-> font])
  /\ y' = NextY(y)
  /\ row' = row + 1
  /\ UNCHANGED <<ascii_art, sys_argv, loadable, fs, pc, output_path, lines,
                 max_width, height, img_width, img_height, font_idx, font, tried,
                 color, saves, stdout, exc, status, prev>>

\* line 83, the write succeeds: the file is replaced
SaveOK ==
  /\ pc = "paint"
  /\ row > Len(lines)
  /\ fs' = [fs EXCEPT ![output_path] = EncodePNG(img)]
  /\ saves' = saves + 1
  /\ pc' = "report"
  /\ UNCHANGED <<ascii_art, sys_argv, loadable, output_path, locals, stdout, exc,
                 status, prev>>

\* the write error caught and the report printed all the same
SaveFailSwallowed ==
  /\ pc = "paint"
  /\ row > Len(lines)
  /\ saves' = saves + 1
  /\ exc' = "OSError"
  /\ pc' = "report"
  /\ UNCHANGED <<ascii_art, sys_argv, loadable, fs, output_path, locals, stdout,
                 status, prev>>

\* line 83, the write fails (invalid path, permission denied): nothing catches
\* the exception, the interpreter exits with status 1
SaveFail ==
  /\ pc = "paint"
  /\ row > Len(lines)
  /\ saves' = saves + 1
  /\ exc' = "OSError"
  /\ status' = 1
  /\ pc' = "exited"
  /\ UNCHANGED <<ascii_art, sys_argv, loadable, fs, output_path, locals, stdout,
                 prev>>

\* lines 84-85, then the end of the script
Report ==
  /\ pc = "report"
  /\ stdout' = stdout \o
       << [label |-> "Created", path |-> output_path, w |-> 0, h |-> 0],
          [label |-> "Dimensions", path |-> "", w |-> img_width, h |-> img_height] >>
  /\ pc' = "exited"
  /\ UNCHANGED <<ascii_art, sys_argv, loadable, fs, output_path, locals, saves,
                 exc, status, prev>>

Step == \/ Dimensions \/ NewCanvas \/ TryFont \/ FontFallback \/ BeginPaint
        \/ DrawLine \/ SaveOK \/ SaveFail \/ Report

Next == Main \/ Dimensions \/ NewCanvas \/ TryFont \/ FontFallback \/ BeginPaint
        \/ DrawLine \/ SaveOK \/ SaveFail \/ Report

Spec == Init /\ [][Next]_vars

\* One execution of the script as it is shipped.
FirstRun == pc = "idle" /\ Main

NextOnce == FirstRun \/ Dimensions \/ NewCanvas \/ TryFont \/ FontFallback
            \/ BeginPaint \/ DrawLine \/ SaveOK \/ SaveFail \/ Report

SpecHeader == InitHeader /\ [][NextOnce]_vars

\* One execution of any text block; the interpreter keeps executing a started
\* run until it exits.
FairSpec == Init /\ [][NextOnce]_vars /\ WF_vars(Step)

(***************************************************************************)
(* The text block read without split: rows are what lies between newlines. *)
(***************************************************************************)
NLAt(s) == {k \in 1..Len(s) : s[k] = NL}

RowCount(s) == Cardinality(NLAt(s)) + 1

\* the newline that closes row k
NthNL(s, k) == CHOOSE p \in NLAt(s) : Cardinality({q \in NLAt(s) : q < p}) = k - 1

RowStart(s, k) == IF k = 1 THEN 0 ELSE NthNL(s, k - 1)

RowEnd(s, k) == IF k = RowCount(s) THEN Len(s) + 1 ELSE NthNL(s, k)

Row(s, k) == SubSeq(s, RowStart(s, k) + 1, RowEnd(s, k) - 1)

RowLen(s, k) == RowEnd(s, k) - RowStart(s, k) - 1

LongestRow(s) ==
  LET lens == {RowLen(s, k) : k \in 1..RowCount(s)}
  IN  CHOOSE m \in lens : \A n \in lens : n <= m

NoneLoadable == \A i \in 1..Len(FontCandidates) : FontCandidates[i] \notin loadable

CreatedLine(path) == [label |-> "Created", path |-> path, w |-> 0, h |-> 0]

DimensionsLine(w, h) == [label |-> "Dimensions", path |-> "", w |-> w, h |-> h]

\* the pixels under the glyphs of the rows drawn so far
InkOfDrawnRows ==
  UNION {DOMAIN GlyphMask(draws[k].font, draws[k].text, draws[k].x, draws[k].y) :
           k \in 1..Len(draws)}

(***************************************************************************)
(* Properties                                                              *)
(***************************************************************************)

\* C1: for a text block of R >= 1 rows whose longest row has C characters the
\* canvas is C*8+40 wide and R*16+40 high, whatever font was resolved, and a
\* finished run has printed exactly these dimensions.
C1_CanvasSize ==
  LET w == LongestRow(ascii_art) * 8 + 40
      h == RowCount(ascii_art) * 16 + 40
  IN  /\ img.exists => img.size = <<w, h>>
      /\ \A i \in 1..Len(stdout) :
           stdout[i].label = "Dimensions" => stdout[i] = DimensionsLine(w, h)
      /\ (pc = "exited" /\ exc = "none") =>
           \E i \in 1..Len(stdout) : stdout[i].label = "Dimensions"

\* two finished runs over rows of unequal length, under different fonts
C1_Witness ==
  /\ pc = "exited" /\ exc = "none"
  /\ RowCount(ascii_art) >= 2 /\ LongestRow(ascii_art) >= 1
  /\ prev.valid /\ prev.font # font /\ font.kind = "default"
  /\ prev.img.size = img.size
  /\ stdout[2] = DimensionsLine(img.size[1], img.size[2])

\* C2: the paint pass draws every row exactly once, in row order, row i (from
\* 0) at x = 20 and y = 20 + i*16.
C2_RowsDrawnInOrder ==
  /\ Len(draws) <= RowCount(ascii_art)
  /\ \A k \in 1..Len(draws) :
       /\ draws[k].x = 20
       /\ draws[k].y = 20 + (k - 1) * 16
       /\ draws[k].text = Row(ascii_art, k)
  /\ pc = "paint" => Len(draws) = row - 1
  /\ (saves > 0 \/ pc \in {"report", "exited"}) => Len(draws) = RowCount(ascii_art)

C2_Witness ==
  /\ pc = "report"
  /\ Len(draws) = 2
  /\ draws[1].text # draws[2].text
  /\ draws[2].y = 36

\* C3: the candidates are tried in the order DejaVuSansMono, Monaco,
\* LiberationMono; the resolved font is the first that loads, nothing is tried
\* after a success, the default font is used only when all three failed, and no
\* load failure ends the run.
C3_FirstLoadableFont ==
  LET order == << "/usr/share/fonts/truetype/dejavu/DejaVuSansMono.ttf",
                  "/System/Library/Fonts/Monaco.dfont",
                  "/usr/share/fonts/truetype/liberation/LiberationMono-Regular.ttf" >>
      failedBefore(n) == \A i \in 1..(n - 1) : order[i] \notin loadable
  IN  /\ Len(tried) <= 3
      /\ \A i \in 1..Len(tried) : tried[i] = order[i]
      /\ font.kind = "truetype" =>
           /\ Len(tried) >= 1
           /\ font = TrueType(tried[Len(tried)], 14)
           /\ font.path \in loadable
           /\ failedBefore(Len(tried))
      /\ font.kind = "default" => Len(tried) = 3 /\ failedBefore(4)
      /\ pc \in {"color", "paint", "report", "exited"} => font.kind # "none"
      /\ exc # "none" => exc = "OSError" /\ saves = 1

\* the second candidate loaded after the first failed; the third would load too
C3_Witness ==
  /\ pc = "exited"
  /\ Len(tried) = 2
  /\ font.path = FontCandidates[2]
  /\ FontCandidates[3] \in loadable

C5_AsStated ==
  (pc = "exited" /\ Len(sys_argv) = 1 /\ exc = "none") =>
     /\ RowCount(ascii_art) = 6
     /\ LongestRow(ascii_art) <= 68
     /\ fs["assets/jellywatch-header.png"].exists
     /\ fs["assets/jellywatch-header.png"].size =
          <<LongestRow(ascii_art) * 8 + 40, 6 * 16 + 40>>
     /\ stdout = << CreatedLine("assets/jellywatch-header.png"),
                    DimensionsLine(LongestRow(ascii_art) * 8 + 40, 6 * 16 + 40) >>

\* C5 (amended): the embedded block has 5 rows, the longest of 159 characters
\* as the source file holds them; with no CLI argument a run whose write
\* succeeds writes assets/jellywatch-header.png sized 1312 x 120
\* (159*8+40 by 5*16+40) and prints that path and size.
C5_HeaderImage ==
  /\ RowCount(ascii_art) = 5
  /\ LongestRow(ascii_art) = 159
  /\ img.exists => img.size = <<1312, 120>>
  /\ (pc \notin {"idle", "dims"} /\ Len(sys_argv) = 1) =>
        output_path = "assets/jellywatch-header.png"
  /\ (pc = "exited" /\ Len(sys_argv) = 1 /\ exc = "none") =>
        /\ fs["assets/jellywatch-header.png"].exists
        /\ fs["assets/jellywatch-header.png"].format = "PNG"
        /\ fs["assets/jellywatch-header.png"].size = <<1312, 120>>
        /\ stdout = << CreatedLine("assets/jellywatch-header.png"),
                       DimensionsLine(1312, 120) >>

C5_Witness ==
  /\ ascii_art = ASCII_ART
  /\ pc = "exited" /\ Len(sys_argv) = 1 /\ exc = "none"
  /\ Len(draws) = 5
  /\ fs["assets/jellywatch-header.png"] = EncodePNG(img)

\* C6: the canvas is created with alpha 0 everywhere; at every point of the
\* render, and in the written file, a pixel outside the glyph ink of the rows
\* drawn so far is transparent black; every draw uses the fill
\* (170, 92, 195, 255).
C6_BackgroundTransparent ==
  /\ img.exists =>
       /\ img.background = <<0, 0, 0, 0>>
       /\ \A p \in DOMAIN img.painted : p \in InkOfDrawnRows
       /\ \A p \in {<<0, 0>>, <<img.size[1] - 1, img.size[2] - 1>>} \cup DOMAIN img.painted :
            p \notin InkOfDrawnRows => PixelAt(img, p)[4] = 0
  /\ (pc = "font" /\ img.exists) => img.painted = NoPixels
  /\ \A k \in 1..Len(draws) : draws[k].fill = <<170, 92, 195, 255>>
  /\ \A p \in DOMAIN img.painted : img.painted[p][4] > 0
  /\ (pc \in {"report", "exited"} /\ exc = "none") =>
       /\ fs[output_path].background[4] = 0
       /\ DOMAIN fs[output_path].painted \subseteq InkOfDrawnRows

\* a written file with ink in it, a blank row drawn as well
C6_Witness ==
  /\ pc = "exited" /\ exc = "none"
  /\ fs[output_path].exists
  /\ DOMAIN fs[output_path].painted # {}
  /\ \E k \in 1..Len(draws) : DOMAIN GlyphMask(font, draws[k].text, 20, draws[k].y) = {}
  /\ PixelAt(img, <<0, 0>>) = <<0, 0, 0, 0>>

\* C7: a failed write is not caught: the run ends at once with a failure
\* status, img.save was called once, and nothing was printed.
C7_WriteFailurePropagates ==
  /\ [](exc = "OSError" =>
          /\ pc = "exited" /\ status = 1
          /\ saves = 1
          /\ stdout = <<>>)
  /\ [](saves <= 1)
  /\ [][exc = "OSError" => (pc' = "dims" /\ exc' = "none" /\ saves' = 0)]_vars

C7_Witness ==
  /\ exc = "OSError"
  /\ pc = "exited"
  /\ Len(draws) >= 1
  /\ ~ fs[output_path].exists

C9_AsStated ==
  ascii_art = <<>> =>
     /\ ~ img.exists
     /\ pc \in {"report", "exited"} => exc = "ValueError"
     /\ \A p \in Paths : ~ fs[p].exists

\* C9 (amended): the text block is not validated, but split("\n") never yields
\* an empty list: a text block without any character is one empty row, max is
\* never taken over an empty sequence, and the run goes on with a 40 x 56
\* canvas like any other.
C9_NeverNoRows ==
  /\ pc \notin {"idle", "dims"} => Len(lines) >= 1
  /\ exc # "ValueError"
  /\ (ascii_art = <<>> /\ pc \notin {"idle", "dims"}) => lines = << <<>> >>
  /\ (ascii_art = <<>> /\ img.exists) => img.size = <<40, 56>>

C9_Witness ==
  /\ ascii_art = <<>>
  /\ pc = "exited" /\ exc = "none"
  /\ Len(draws) = 1
  /\ fs[output_path].size = <<40, 56>>

\* C10: in the 8 x 16 cell model every row's cell rectangle keeps the full
\* padding: 20 + L*8 <= img_width - 20 and 20 + (i+1)*16 <= img_height - 20
\* for row i (from 0) of length L.
C10_RowsInsidePadding ==
  /\ img.exists =>
       \A i \in 1..Len(lines) :
         /\ 20 + Len(lines[i]) * 8 <= img.size[1] - 20
         /\ 20 + i * 16 <= img.size[2] - 20
  /\ \A k \in 1..Len(draws) :
       /\ draws[k].x + Len(draws[k].text) * 8 <= img.size[1] - 20
       /\ draws[k].y + 16 <= img.size[2] - 20

\* a longer row drawn after a shorter one, the last row ending at the padding
C10_Witness ==
  /\ pc = "exited"
  /\ Len(draws) >= 2
  /\ Len(draws[1].text) < Len(draws[2].text)
  /\ draws[Len(draws)].y + 16 = img.size[2] - 20
  /\ 20 + Len(draws[2].text) * 8 = img.size[1] - 20

====
